---- MODULE Spec2Model ----
(***************************************************************************)
(* Model of the NBA schedule bot: the trigger monitor (nba_warning_bot.py) *)
(* and the digest sender with its Notifier (nba_schedule_bot_github.py).   *)
(*                                                                         *)
(* Instants are seconds on the UTC time line; the local calendar date of   *)
(* an instant is taken in the fixed-offset zone America/Phoenix (UTC-7).   *)
(***************************************************************************)
EXTENDS Integers, Sequences, FiniteSets, TLC

VARIABLES
    clock,        \* the system clock (an instant)
    deadline,     \* the instant up to which the clock is followed
    feed,         \* which responses the scoreboard API may give: a key of Feed
                  \* ("same": one schedule, and sends and marker writes succeed)
    BOT_TOKEN,    \* module-level configuration: the bot credential
    CHAT_ID,      \* module-level configuration: the chat destination
    procs,        \* the processes that exist (monitors 1, 2; the digest sender 0)
    pc,           \* per process: the function it is in and the place in it
    now,          \* per monitor: the local `now` of the running check
    games,        \* per monitor: the local `games` of the running check
    marker_file,  \* per monitor: warning_file / checkin_file of the running check
    sent,         \* per process: what send_message_async returned to its caller
    api,          \* per process: what the messaging API answered to that call
    schedule_text,\* digest: the text get_today_schedule returned
    exit_code,    \* digest: the process exit code, -1 while it runs
    fetch_status, \* digest, history: how the scoreboard request ended
    wakeAt,       \* per monitor: the instant time.sleep(60) returns
    markers,      \* the marker files that exist on disk, as <<kind, date>>
    calls,        \* history: Notifier calls per <<kind, date>>
    marked,       \* history: Notifier calls followed by the creation of their marker
    sawTwo,       \* history: some fetch yielded a schedule of at least 2 games
    restarts,     \* history: process starts after a stop
    last,         \* per monitor, history: how the last finished check ended
    stopCause,    \* per monitor, history: why the loop ended
    arg,          \* a function called on its own: its name and its inputs
    returned,     \* what that call returned
    warned        \* per monitor, history: the kickoff of the game the warning
                  \* sent in the running tick was for, 0 if none was sent

vars == << clock, deadline, feed, arg, returned, warned, BOT_TOKEN, CHAT_ID, procs, pc, now, games, marker_file, sent,
           api, schedule_text, exit_code, fetch_status, wakeAt, markers, calls, marked, sawTwo, restarts, last, stopCause >>

----------------------------------------------------------------------------
(* Time *)

MINUTE == 60
HOUR == 60 * MINUTE
DAY == 24 * HOUR

\* TIMEZONE = "America/Phoenix": UTC-7 the whole year
PhoenixOffset == 0 - 7 * HOUR

\* utc_time.astimezone(arizona_tz): the local wall-clock reading of an instant
astimezone(t) == t + PhoenixOffset

\* local_time.date(), now.date(): the local calendar date of an instant
LocalDate(t) == astimezone(t) \div DAY

\* timedelta(minutes=15)
WARNING_LEAD_MIN == 15

\* `time_diff <= 60`
TOLERANCE_S == 60

\* time.sleep(60)
SLEEP_S == 60

\* local midnight between date 0 and date 1, as an instant
Midnight == DAY - PhoenixOffset

\* the monitor is started StartLeadMin minutes and a half before Midnight
StartLeadMin == 19
Start == Midnight - StartLeadMin * MINUTE - 30

\* the clock is followed for HorizonMin minutes
HorizonMin == 22
\* the time a network call or a statement may take
Delays == {0, 30}

Dates == {LocalDate(Start), LocalDate(Start) + 1}
Kinds == {"warning", "checkin"}
Files == Kinds \X Dates

\* the history counters count up to MaxCount
MaxCount == 2
Count(n) == IF n < MaxCount THEN n + 1 ELSE n

Abs(x) == IF x < 0 THEN 0 - x ELSE x
Max(a, b) == IF a >= b THEN a ELSE b

----------------------------------------------------------------------------
(* Strings are sequences of one-character strings, so that upper(), len()  *)
(* and slicing are computed.                                               *)

LowerCase == << "a", "g", "h", "k", "n", "o", "s", "t", "u", "y" >>
UpperCase == << "A", "G", "H", "K", "N", "O", "S", "T", "U", "Y" >>

\* str.upper() on one character
UpperChar(c) ==
    IF \E k \in 1..Len(LowerCase) : LowerCase[k] = c
    THEN UpperCase[CHOOSE k \in 1..Len(LowerCase) : LowerCase[k] = c]
    ELSE c

\* str.upper()
Upper(s) == [k \in 1..Len(s) |-> UpperChar(s[k])]

\* abbrev_map
abbrev_map ==
    { << <<"N","O">>,         <<"N","O","P">> >>,
      << <<"S","A">>,         <<"S","A","S">> >>,
      << <<"N","Y">>,         <<"N","Y","K">> >>,
      << <<"G","S">>,         <<"G","S","W">> >>,
      << <<"U","T","A","H">>, <<"U","T","A">> >> }

\* mutant: the table is looked up before the input is uppercased
normalize_lookup_before_upper(abbrev) ==
    IF abbrev = <<>> THEN abbrev
    ELSE LET up == Upper(abbrev) IN
         IF \E e \in abbrev_map : e[1] = abbrev
         THEN (CHOOSE e \in abbrev_map : e[1] = abbrev)[2]
         ELSE IF Len(up) = 3 THEN up
         ELSE IF Len(up) > 3 THEN SubSeq(up, 1, 3)
         ELSE IF Len(up) = 2 THEN up \o << up[Len(up)] >>
         ELSE up \o up \o up

normalize_team_abbrev(abbrev) ==
    IF abbrev = <<>> THEN abbrev
    ELSE LET up == Upper(abbrev) IN
         IF \E e \in abbrev_map : e[1] = up
         THEN (CHOOSE e \in abbrev_map : e[1] = up)[2]
         ELSE IF Len(up) = 3 THEN up
         ELSE IF Len(up) > 3 THEN SubSeq(up, 1, 3)
         ELSE IF Len(up) = 2 THEN up \o << up[Len(up)] >>
         ELSE IF Len(up) = 1 THEN up \o up \o up
         ELSE up

----------------------------------------------------------------------------
(* The scoreboard API and the monitor's schedule retrieval *)

\* An event of the API response.  date.form is the shape of the ISO string:
\* "Z" (UTC designator), "offset" (explicit +00:00), "naive" (no offset),
\* "missing" (no date field) or "bad" (not ISO-8601); date.utc is the instant
\* a well-formed string denotes.  away, home: the competitors' abbreviations
\* (<<>> when the competitor is absent).
Ev(form, utc, away, home, short) ==
    [date |-> [form |-> form, utc |-> utc], away |-> away, home |-> home,
     shortName |-> short]

EventPool ==
    { Ev("Z",      Midnight -  3 * MINUTE, <<"L","A","L">>, <<"B","O","S">>, <<"x">>),
      Ev("Z",      Midnight -  1 * MINUTE, <<"n","y">>,     <<"G","S">>,     <<"x">>),
      Ev("naive",  Midnight + 16 * MINUTE, <<"U","T","A","H">>, <<"N","O">>, <<"x">>),
      Ev("offset", Midnight + 16 * MINUTE, <<>>,            <<>>,            <<"y">>),
      Ev("offset", Midnight -  3 * MINUTE, <<>>,            <<"b","o","s">>, <<"x">>),
      Ev("bad",    Midnight -  3 * MINUTE, <<"L","A","L">>, <<"B","O","S">>, <<"x">>) }

\* the API lists at most MaxEvents events
MaxEvents == 3

EventLists ==
    UNION { { s \in [1..n -> EventPool] : \A a, b \in 1..n : a # b => s[a] # s[b] }
            : n \in 0..MaxEvents }

\* what requests.get / raise_for_status / response.json() yield
Responses ==
    { [status |-> st, events |-> <<>>] : st \in {"RequestException", "Exception"} }
    \cup { [status |-> "ok", events |-> es] : es \in EventLists }

\* the matchup label of an event (away/home, one team, or the event's name)
team_matchup(event) ==
    LET away_team == normalize_team_abbrev(event.away)
        home_team == normalize_team_abbrev(event.home)
    IN  IF away_team # <<>> /\ home_team # <<>>
        THEN away_team \o <<"/">> \o home_team
        ELSE IF away_team # <<>> THEN away_team
        ELSE IF home_team # <<>> THEN home_team
        ELSE event.shortName

\* datetime.fromisoformat succeeds (after "Z" is replaced by "+00:00")
Parses(event) == event.date.form \in {"Z", "offset", "naive"}

\* mutant: the date of the kickoff is taken before the conversion to the
\* local timezone
RetainedByUtcDate(event, today) ==
    /\ event.date.form # "missing"
    /\ event.date.form \in {"Z", "offset", "naive"}
    /\ event.date.utc \div DAY = today

\* the event is retained: it has a date that parses and its local date is today
Retained(event, today) ==
    /\ event.date.form # "missing"
    /\ Parses(event)
    /\ LocalDate(event.date.utc) = today

\* the list comprehension of the for loop: retained events in response order
RECURSIVE Collect(_, _)
Collect(events, today) ==
    IF events = <<>> THEN <<>>
    ELSE LET e == Head(events)
             rest == Collect(Tail(events), today)
         IN  IF Retained(e, today)
             THEN << << e.date.utc, team_matchup(e) >> >> \o rest
             ELSE rest

\* list.sort(key=lambda x: x[0]): a stable insertion of g into a sorted list
RECURSIVE Insert(_, _)
Insert(g, sorted) ==
    IF sorted = <<>> THEN << g >>
    ELSE IF g[1] < Head(sorted)[1] THEN << g >> \o sorted
    ELSE << Head(sorted) >> \o Insert(g, Tail(sorted))

RECURSIVE SortByTime(_)
SortByTime(gs) ==
    IF gs = <<>> THEN <<>>
    ELSE Insert(gs[Len(gs)], SortByTime(SubSeq(gs, 1, Len(gs) - 1)))

get_today_games_with_times(resp, today) ==
    IF resp.status # "ok" THEN <<>>
    ELSE SortByTime(Collect(resp.events, today))

\* None is modelled by the empty tuple
None == <<>>

\* mutant: the guard tests for fewer than 1 game, and the only game is returned
get_second_to_last_off_by_one(gs) ==
    IF Len(gs) < 1 THEN None ELSE IF Len(gs) = 1 THEN gs[1] ELSE gs[Len(gs) - 1]

get_second_to_last_game_time(gs) ==
    IF Len(gs) < 2 THEN None ELSE gs[Len(gs) - 1]

----------------------------------------------------------------------------
(* The Notifier: send_message_async *)

\* configuration values: "None" is an unset variable, "" a variable set empty
Tokens == {"None", "", "123:abc"}
ChatIds == {"None", "", "42", "@chat"}

\* Python truthiness of a configuration value: `not BOT_TOKEN`
Falsy(v) == v \in {"None", ""}

\* outcomes of the messaging API's identity call and send call
GetMeOutcomes == {"ok", "Unauthorized", "NetworkError"}
SendOutcomes == {"ok", "Unauthorized", "Chat not found", "NetworkError"}

\* the API cannot deliver to a missing destination (chat_id=None)
SendOutcomesFor(chat) ==
    IF chat = "None" THEN SendOutcomes \ {"ok"} ELSE SendOutcomes

\* int(CHAT_ID) raises ValueError unless the string is a number
IntParses(chat) == chat = "42"

\* mutant: the identity call has a handler of its own, so the send is
\* attempted whatever it answered
NotifierBodyNoGate(token, chat, me, snd) ==
    IF Falsy(token)
    THEN [returns |-> "False", exc |-> "none", asked |-> FALSE,
          attempted |-> FALSE, diag |-> "token not set"]
    ELSE IF chat # "None" /\ ~IntParses(chat)
    THEN [returns |-> "none", exc |-> "ValueError", asked |-> FALSE,
          attempted |-> FALSE, diag |-> "none"]
    ELSE IF snd = "ok"
    THEN [returns |-> "True", exc |-> "none", asked |-> TRUE,
          attempted |-> TRUE, diag |-> "none"]
    ELSE [returns |-> "False", exc |-> "none", asked |-> TRUE,
          attempted |-> TRUE, diag |-> "Error sending"]

\* the body of the outer try block: what it returns, or the exception that
\* leaves it; whether get_me and send_message were called; the diagnostic
NotifierBody(token, chat, me, snd) ==
    IF Falsy(token)
    THEN [returns |-> "False", exc |-> "none", asked |-> FALSE,
          attempted |-> FALSE, diag |-> "token not set"]
    ELSE IF chat # "None" /\ ~IntParses(chat)
    THEN [returns |-> "none", exc |-> "ValueError", asked |-> FALSE,
          attempted |-> FALSE, diag |-> "none"]
    ELSE IF me # "ok"
    THEN [returns |-> "none", exc |-> me, asked |-> TRUE,
          attempted |-> FALSE, diag |-> "none"]
    ELSE IF snd = "ok"
    THEN [returns |-> "True", exc |-> "none", asked |-> TRUE,
          attempted |-> TRUE, diag |-> "none"]
    ELSE [returns |-> "False", exc |-> "none", asked |-> TRUE, attempted |-> TRUE,
          diag |-> IF snd = "Unauthorized" THEN "Unauthorized error"
                   ELSE IF snd = "Chat not found" THEN "Chat not found"
                   ELSE "Error sending"]

\* mutant: the handler catches the errors of the messaging API only
CatchesApiErrorsOnly(exc) == exc # "ValueError"

\* `except Exception as e` of the outer try: every exception is caught
OuterExceptCatches(exc) == TRUE

\* the call as its caller sees it: ret is the returned boolean, raised tells
\* that an exception left the function instead
send_message_async(token, chat, me, snd) ==
    LET b == NotifierBody(token, chat, me, snd) IN
    IF b.exc = "none"
    THEN [ret |-> b.returns = "True", raised |-> FALSE, asked |-> b.asked,
          attempted |-> b.attempted, diag |-> b.diag]
    ELSE IF OuterExceptCatches(b.exc)
    THEN [ret |-> FALSE, raised |-> FALSE, asked |-> b.asked,
          attempted |-> b.attempted,
          diag |-> IF b.exc = "Unauthorized" THEN "token unauthorized"
                   ELSE "Error initializing bot"]
    ELSE [ret |-> FALSE, raised |-> TRUE, asked |-> b.asked,
          attempted |-> b.attempted, diag |-> "none"]

NoResult ==
    [ret |-> FALSE, raised |-> FALSE, asked |-> FALSE, attempted |-> FALSE,
     diag |-> "no call"]
NoApi == [me |-> "none", snd |-> "none"]
NoText == << "none" >>

----------------------------------------------------------------------------
(* The trigger monitor *)

\* the monitor processes that may exist
Instances == {1, 2}

\* the digest sender
Digest == 0

At(fn, at) == [fn |-> fn, at |-> at]
NoFile == << "none", 0 >>
NoLast == [kind |-> "none", how |-> "none"]

\* the process may be started again MaxRestarts times
MaxRestarts == 1

\* the configurations the monitor is run with
MonitorConfigs ==
    { << "123:abc", "42" >>, << "None", "42" >>, << "123:abc", "None" >>,
      << "123:abc", "@chat" >> }

InitState(ps, start, minutes, responses, configs) ==
    /\ clock = start
    /\ deadline = start + minutes * MINUTE
    /\ feed = responses
    /\ \E c \in configs : BOT_TOKEN = c[1] /\ CHAT_ID = c[2]
    /\ procs = ps
    /\ pc = [i \in ps |-> IF i = Digest THEN At("main", "start")
                           ELSE At("warning", "start")]
    /\ now = [i \in ps |-> 0]
    /\ games = [i \in ps |-> <<>>]
    /\ marker_file = [i \in ps |-> NoFile]
    /\ sent = [i \in ps |-> NoResult]
    /\ api = [i \in ps |-> NoApi]
    /\ schedule_text = NoText
    /\ exit_code = -1
    /\ fetch_status = "none"
    /\ wakeAt = [i \in ps |-> 0]
    /\ markers = {}
    /\ calls = [f \in Files |-> 0]
    /\ marked = [f \in Files |-> 0]
    /\ sawTwo = FALSE
    /\ restarts = 0
    /\ last = [i \in ps |-> NoLast]
    /\ stopCause = [i \in ps |-> "none"]
    /\ warned = [i \in ps |-> 0]

\* no function is called on its own while processes run
NoCall == [fn |-> "none"]

InitProcs(ps, start, minutes, responses, configs) ==
    /\ InitState(ps, start, minutes, responses, configs)
    /\ arg = NoCall
    /\ returned = NoCall

Init == InitProcs({1}, Start, HorizonMin, "any", MonitorConfigs)

\* the locals of a check are dropped when it returns or is left by an exception
DropLocals(i) ==
    /\ now' = [now EXCEPT ![i] = 0]
    /\ games' = [games EXCEPT ![i] = <<>>]
    /\ marker_file' = [marker_file EXCEPT ![i] = NoFile]
    /\ sent' = [sent EXCEPT ![i] = NoResult]
    /\ api' = [api EXCEPT ![i] = NoApi]

\* check k returns at instant t: monitor_loop goes on with the check-in check
\* after the warning check, and with time.sleep(60) after the check-in check
Return(i, k, how, t) ==
    /\ DropLocals(i)
    /\ last' = [last EXCEPT ![i] = [kind |-> k, how |-> how]]
    /\ IF k = "warning"
       THEN /\ pc' = [pc EXCEPT ![i] = At("checkin", "start")]
            /\ UNCHANGED wakeAt
       ELSE /\ pc' = [pc EXCEPT ![i] = At("loop", "sleep")]
            /\ wakeAt' = [wakeAt EXCEPT ![i] = t + SLEEP_S]

\* mutant: the exception is not caught and ends the loop
RaiseEndsLoop(i, k, t) ==
    /\ DropLocals(i)
    /\ last' = [last EXCEPT ![i] = [kind |-> k, how |-> "error"]]
    /\ pc' = [pc EXCEPT ![i] = At("exit", "stopped")]
    /\ wakeAt' = [wakeAt EXCEPT ![i] = 0]

\* an exception leaves check k at instant t: `except Exception` of monitor_loop
\* prints it and sleeps
Raise(i, k, t) ==
    /\ DropLocals(i)
    /\ last' = [last EXCEPT ![i] = [kind |-> k, how |-> "error"]]
    /\ pc' = [pc EXCEPT ![i] = At("loop", "except_sleep")]
    /\ wakeAt' = [wakeAt EXCEPT ![i] = t + SLEEP_S]

\* the API fails or lists the two games of date 0
FeedTwo ==
    { r \in Responses :
        \/ r.status = "RequestException"
        \/ /\ r.status = "ok"
           /\ Len(r.events) = 2
           /\ r.events[1].date.utc < r.events[2].date.utc
           /\ \A k \in 1..2 : r.events[k].date.form = "Z" }

\* the games of a day whose schedule changes while the monitor runs: one a
\* minute after Midnight and two a quarter of an hour later
LateEvents ==
    { Ev("Z",      Midnight +  1 * MINUTE, <<"S","A">>, <<"n","o">>, <<"x">>),
      Ev("naive",  Midnight + 16 * MINUTE, <<"U","T","A","H">>, <<"N","O">>, <<"x">>),
      Ev("offset", Midnight + 16 * MINUTE, <<>>,        <<>>,        <<"y">>) }

\* the API lists two or all three of them, in any order
FeedLate ==
    { [status |-> "ok", events |-> es] :
        es \in UNION { { s \in [1..n -> LateEvents] :
                           \A a, b \in 1..n : a # b => s[a] # s[b] } : n \in 2..3 } }

\* the API always lists the same two games of date 0
FeedSame ==
    { [status |-> "ok",
       events |-> << Ev("Z", Midnight - 3 * MINUTE, <<"L","A","L">>, <<"B","O","S">>, <<"x">>),
                     Ev("Z", Midnight - 1 * MINUTE, <<"n","y">>,     <<"G","S">>,     <<"x">>) >>] }

\* the responses of the API by name: any response, those of FeedTwo, those
\* of FeedLate or that of FeedSame
Feed(name) ==
    IF name = "any" THEN Responses
    ELSE IF name = "two" THEN FeedTwo
    ELSE IF name = "late" THEN FeedLate
    ELSE FeedSame

\* under the feed "same" the messaging API and the marker directory work
Reliable(name) == name = "same"

\* the schedules get_today_games_with_times may return on date today, over
\* the responses of the API
FetchedOn[name \in {"any", "two", "late", "same"}, today \in Dates] ==
    { get_today_games_with_times(resp, today) : resp \in Feed(name) }

\* check_and_send_warning / check_and_send_checkin up to the fetch: `now` is
\* read, then get_today_games_with_times reads today's date and the API
Fetch(i, k) ==
    /\ i \in procs
    /\ pc[i] = At(k, "start")
    /\ \E d \in Delays :
         \E today \in {LocalDate(clock), LocalDate(clock + d)} :
           \E gs \in FetchedOn[feed, today] :
             /\ clock + d <= deadline
             /\ clock' = clock + d
             /\ now' = [now EXCEPT ![i] = clock]
             /\ games' = [games EXCEPT ![i] = gs]
             /\ sawTwo' = (sawTwo \/ Len(gs) >= 2)
    /\ pc' = [pc EXCEPT ![i] = At(k, "decide")]
    /\ last' = [last EXCEPT ![i] = NoLast]
    /\ UNCHANGED << deadline, feed, arg, returned, warned, BOT_TOKEN, CHAT_ID, procs, marker_file, sent, api, wakeAt, markers,
                    calls, marked, restarts, stopCause, schedule_text, exit_code, fetch_status >>

\* mutant: the warning is due at the start of the game, like the check-in
TriggerTimeAtStart(k, game_time) == game_time

\* the instant the trigger of kind k is due for a game at game_time
TriggerTime(k, game_time) ==
    IF k = "warning" THEN game_time - WARNING_LEAD_MIN * MINUTE ELSE game_time

\* mutant: `time_diff < 60`
WithinWindowStrict(t, due) == Abs(t - due) < TOLERANCE_S

\* `time_diff <= 60`
WithinWindow(t, due) == Abs(t - due) <= TOLERANCE_S

\* mutant: the marker test also sees the markers other processes are about
\* to write, as a lock or an atomic create at the test would
ExistsOrClaimed(file) ==
    file \in markers \/ \E j \in procs : marker_file[j] = file

\* mutant: the marker test is missing
ExistsNever(file) == FALSE

\* os.path.exists(warning_file)
Exists(file) == file \in markers

\* the path of the marker: kind and now.date()
MarkerPath(k, t) == << k, LocalDate(t) >>

\* from the fetch to the marker test: the early returns and the window test
Decide(i, k) ==
    /\ i \in procs
    /\ pc[i] = At(k, "decide")
    /\ LET second_to_last == get_second_to_last_game_time(games[i]) IN
       IF games[i] = <<>> THEN Return(i, k, "no games", clock)
       ELSE IF second_to_last = None THEN Return(i, k, "one game", clock)
       ELSE IF ~WithinWindow(now[i], TriggerTime(k, second_to_last[1]))
       THEN Return(i, k, "not due", clock)
       ELSE IF Exists(MarkerPath(k, now[i]))
       THEN Return(i, k, "already sent", clock)
       ELSE /\ pc' = [pc EXCEPT ![i] = At(k, "send")]
            /\ marker_file' = [marker_file EXCEPT ![i] = MarkerPath(k, now[i])]
            /\ UNCHANGED << now, games, sent, api, wakeAt, last >>
    /\ UNCHANGED << clock, deadline, feed, arg, returned, warned, BOT_TOKEN, CHAT_ID, procs, markers, calls, marked,
                    sawTwo, restarts, stopCause, schedule_text, exit_code, fetch_status >>

\* asyncio.run(send_message_async(message))
Send(i, k) ==
    /\ i \in procs
    /\ pc[i] = At(k, "send")
    /\ \E d \in Delays, me \in GetMeOutcomes, snd \in SendOutcomesFor(CHAT_ID) :
         /\ Reliable(feed) => (me = "ok" /\ snd = "ok")
         /\ clock + d <= deadline
         /\ clock' = clock + d
         /\ sent' = [sent EXCEPT ![i] = send_message_async(BOT_TOKEN, CHAT_ID, me, snd)]
         /\ api' = [api EXCEPT ![i] = [me |-> me, snd |-> snd]]
    /\ calls' = [calls EXCEPT ![marker_file[i]] = Count(@)]
    /\ pc' = [pc EXCEPT ![i] = At(k, "sent")]
    /\ UNCHANGED << deadline, feed, arg, returned, warned, BOT_TOKEN, CHAT_ID, procs, now, games, marker_file, wakeAt,
                    markers, marked, sawTwo, restarts, last, stopCause,
                    schedule_text, exit_code, fetch_status >>

\* mutant: the marker is written whatever the send returned
WritesMarkerAlways(result) == TRUE

\* the send's result decides whether the marker is written
WritesMarker(result) == result.ret

\* outcomes of `with open(file, 'w') as f: f.write(...)`: both succeed, open
\* fails (no file), or the file is created and the write fails
WriteOutcomes == {"ok", "open fails", "write fails"}

\* `if asyncio.run(...)`: on success the marker is written and the check
\* returns True, otherwise it returns False
Mark(i, k) ==
    /\ i \in procs
    /\ pc[i] = At(k, "sent")
    /\ IF sent[i].raised
       THEN Raise(i, k, clock) /\ UNCHANGED << markers, marked >>
       ELSE IF WritesMarker(sent[i])
       THEN \E w \in WriteOutcomes :
              /\ Reliable(feed) => w = "ok"
              /\ markers' = IF w = "open fails" THEN markers
                            ELSE markers \cup {marker_file[i]}
              /\ marked' = IF w = "open fails" THEN marked
                           ELSE [marked EXCEPT ![marker_file[i]] = Count(@)]
              /\ IF w = "ok" THEN Return(i, k, "sent", clock)
                 ELSE Raise(i, k, clock)
       ELSE Return(i, k, "send failed", clock) /\ UNCHANGED << markers, marked >>
    /\ warned' = IF k = "warning" /\ sent[i].ret
                 THEN [warned EXCEPT ![i] = get_second_to_last_game_time(games[i])[1]]
                 ELSE warned
    /\ UNCHANGED << clock, deadline, feed, arg, returned, BOT_TOKEN, CHAT_ID, procs, calls, sawTwo, restarts,
                    stopCause, schedule_text, exit_code, fetch_status >>

check_and_send_warning(i) ==
    Fetch(i, "warning") \/ Decide(i, "warning") \/ Send(i, "warning") \/ Mark(i, "warning")

check_and_send_checkin(i) ==
    Fetch(i, "checkin") \/ Decide(i, "checkin") \/ Send(i, "checkin") \/ Mark(i, "checkin")

\* mutant: the sleep lasts three minutes
WakeLate(i) ==
    /\ i \in procs
    /\ pc[i] \in {At("loop", "sleep"), At("loop", "except_sleep")}
    /\ Max(clock, wakeAt[i] + 2 * MINUTE) <= deadline
    /\ clock' = Max(clock, wakeAt[i] + 2 * MINUTE)
    /\ pc' = [pc EXCEPT ![i] = At("warning", "start")]
    /\ wakeAt' = [wakeAt EXCEPT ![i] = 0]
    /\ last' = [last EXCEPT ![i] = NoLast]
    /\ warned' = [warned EXCEPT ![i] = 0]
    /\ UNCHANGED << deadline, feed, arg, returned, BOT_TOKEN, CHAT_ID, procs, now, games, marker_file, sent, api,
                    markers, calls, marked, sawTwo, restarts, stopCause,
                    schedule_text, exit_code, fetch_status >>

\* time.sleep(60) returns and the loop starts the next tick
Wake(i) ==
    /\ i \in procs
    /\ pc[i] \in {At("loop", "sleep"), At("loop", "except_sleep")}
    /\ Max(clock, wakeAt[i]) <= deadline
    /\ clock' = Max(clock, wakeAt[i])
    /\ pc' = [pc EXCEPT ![i] = At("warning", "start")]
    /\ wakeAt' = [wakeAt EXCEPT ![i] = 0]
    /\ last' = [last EXCEPT ![i] = NoLast]
    /\ warned' = [warned EXCEPT ![i] = 0]
    /\ UNCHANGED << deadline, feed, arg, returned, BOT_TOKEN, CHAT_ID, procs, now, games, marker_file, sent, api,
                    markers, calls, marked, sawTwo, restarts, stopCause,
                    schedule_text, exit_code, fetch_status >>

\* the process is interrupted from outside (KeyboardInterrupt, a signal)
Interrupt(i) ==
    /\ i \in procs
    /\ pc[i] # At("exit", "stopped")
    /\ pc' = [pc EXCEPT ![i] = At("exit", "stopped")]
    /\ stopCause' = [stopCause EXCEPT ![i] = "interrupt"]
    /\ DropLocals(i)
    /\ wakeAt' = [wakeAt EXCEPT ![i] = 0]
    /\ last' = [last EXCEPT ![i] = NoLast]
    /\ warned' = [warned EXCEPT ![i] = 0]
    /\ UNCHANGED << clock, deadline, feed, arg, returned, BOT_TOKEN, CHAT_ID, procs, markers, calls, marked,
                    sawTwo, restarts, schedule_text, exit_code, fetch_status >>

\* mutant: the sent flags live in memory and are lost with the process
StartAgainForgets(i) ==
    /\ i \in procs
    /\ pc[i] = At("exit", "stopped")
    /\ restarts < MaxRestarts
    /\ restarts' = restarts + 1
    /\ pc' = [pc EXCEPT ![i] = At("warning", "start")]
    /\ markers' = {}
    /\ UNCHANGED << clock, deadline, feed, arg, returned, warned, BOT_TOKEN, CHAT_ID, procs, now, games, marker_file, sent,
                    api, wakeAt, calls, marked, sawTwo, last, stopCause,
                    schedule_text, exit_code, fetch_status >>

\* the stopped process is started again: monitor_loop from its first tick
StartAgain(i) ==
    /\ i \in procs
    /\ pc[i] = At("exit", "stopped")
    /\ restarts < MaxRestarts
    /\ restarts' = restarts + 1
    /\ pc' = [pc EXCEPT ![i] = At("warning", "start")]
    /\ stopCause' = [stopCause EXCEPT ![i] = "none"]
    /\ UNCHANGED << clock, deadline, feed, arg, returned, warned, BOT_TOKEN, CHAT_ID, procs, now, games, marker_file, sent,
                    api, wakeAt, markers, calls, marked, sawTwo, last,
                    schedule_text, exit_code, fetch_status >>

monitor_loop(i) ==
    \/ check_and_send_warning(i)
    \/ check_and_send_checkin(i)
    \/ Wake(i)

Next ==
    \E i \in Instances :
        \/ monitor_loop(i)
        \/ Interrupt(i)
        \/ StartAgain(i)

Spec == Init /\ [][Next]_vars

----------------------------------------------------------------------------
(* The digest sender: get_today_schedule, send_message, main *)

Digits == << "0", "1", "2", "3", "4", "5", "6", "7", "8", "9" >>
TwoDigits(n) == << Digits[(n \div 10) + 1], Digits[(n % 10) + 1] >>

\* str.lstrip("0")
RECURSIVE LStripZero(_)
LStripZero(text) ==
    IF text # <<>> /\ Head(text) = "0" THEN LStripZero(Tail(text)) ELSE text

\* local_time.strftime("%I:%M %p %Z").lstrip("0")
FormatTime(t) ==
    LET secs == astimezone(t) % DAY
        hour24 == secs \div HOUR
        minute == (secs % HOUR) \div MINUTE
        hour12 == IF hour24 % 12 = 0 THEN 12 ELSE hour24 % 12
    IN  LStripZero(TwoDigits(hour12) \o <<":">> \o TwoDigits(minute) \o <<" ">>
                   \o << IF hour24 < 12 THEN "AM" ELSE "PM" >> \o <<" ", "MST">>)

\* f"{team_matchup} <em dash> {game_time}"
GameLine(event) == team_matchup(event) \o << " -- " >> \o FormatTime(event.date.utc)

\* the for loop of get_today_schedule: the lines of the retained events, in
\* the order of the response
RECURSIVE Lines(_, _)
Lines(events, today) ==
    IF events = <<>> THEN <<>>
    ELSE LET e == Head(events)
             rest == Lines(Tail(events), today)
         IN  IF Retained(e, today) THEN << GameLine(e) >> \o rest ELSE rest

\* "\n".join(games)
RECURSIVE Join(_)
Join(lines) ==
    IF Len(lines) = 1 THEN lines[1]
    ELSE lines[1] \o << "\n" >> \o Join(Tail(lines))

NoGamesText == << "N", "o NBA games today" >>
FetchErrorText == << "(x)", " Error fetching schedule" >>
UnexpectedErrorText == << "(x)", " Unexpected error" >>

\* mutant: a single retained game is reported as no game
get_today_schedule_needs_two(resp, today) ==
    IF resp.status = "RequestException" THEN FetchErrorText
    ELSE IF resp.status = "Exception" THEN UnexpectedErrorText
    ELSE LET lines == Lines(resp.events, today) IN
         IF Len(lines) > 1 THEN Join(lines) ELSE NoGamesText

get_today_schedule(resp, today) ==
    IF resp.status = "RequestException" THEN FetchErrorText
    ELSE IF resp.status = "Exception" THEN UnexpectedErrorText
    ELSE LET lines == Lines(resp.events, today) IN
         IF lines # <<>> THEN Join(lines) ELSE NoGamesText

\* str.startswith on a one-character prefix; "(x)" stands for the cross mark
\* that opens both error texts
StartsWith(text, c) == text # <<>> /\ text[1] = c

\* mutant: the test looks for the word of the diagnostic, not for the mark
FetchFailedByWord(text) == StartsWith(text, "Error")

\* `schedule_text.startswith("(x)")`
FetchFailed(text) == StartsWith(text, "(x)")

\* send_message: asyncio.run(send_message_async(text)) inside try/except
send_message(token, chat, me, snd) ==
    LET r == send_message_async(token, chat, me, snd) IN
    IF r.raised THEN [r EXCEPT !.ret = FALSE, !.raised = FALSE] ELSE r

\* the instants the digest sender is run at: before and after Midnight
DigestRuns == {Start, Midnight + MINUTE}

InitDigest ==
    \E t \in DigestRuns : InitProcs({Digest}, t, HorizonMin, "any", Tokens \X ChatIds)

Exit(code) ==
    /\ exit_code' = code
    /\ pc' = [pc EXCEPT ![Digest] = At("exit", "exited")]

\* main: `if not BOT_TOKEN or not CHAT_ID: exit(1)`
MainConfig ==
    /\ Digest \in procs
    /\ pc[Digest] = At("main", "start")
    /\ IF Falsy(BOT_TOKEN) \/ Falsy(CHAT_ID)
       THEN Exit(1)
       ELSE pc' = [pc EXCEPT ![Digest] = At("main", "fetch")] /\ UNCHANGED exit_code
    /\ UNCHANGED << clock, deadline, feed, arg, returned, warned, BOT_TOKEN, CHAT_ID, procs, now, games,
                    marker_file, sent, api, schedule_text, fetch_status, wakeAt,
                    markers, calls, marked, sawTwo, restarts, last, stopCause >>

\* main: schedule_text = get_today_schedule(); exit(1) if the fetch failed
MainFetch ==
    /\ Digest \in procs
    /\ pc[Digest] = At("main", "fetch")
    /\ \E resp \in Feed(feed) :
         /\ fetch_status' = resp.status
         /\ schedule_text' = get_today_schedule(resp, LocalDate(clock))
    /\ IF FetchFailed(schedule_text')
       THEN Exit(1)
       ELSE pc' = [pc EXCEPT ![Digest] = At("main", "send")] /\ UNCHANGED exit_code
    /\ UNCHANGED << clock, deadline, feed, arg, returned, warned, BOT_TOKEN, CHAT_ID, procs, now, games,
                    marker_file, sent, api, wakeAt, markers, calls, marked, sawTwo,
                    restarts, last, stopCause >>

\* main: exit(0) if send_message(message) else exit(1)
MainSend ==
    /\ Digest \in procs
    /\ pc[Digest] = At("main", "send")
    /\ \E me \in GetMeOutcomes, snd \in SendOutcomesFor(CHAT_ID) :
         /\ sent' = [sent EXCEPT ![Digest] = send_message(BOT_TOKEN, CHAT_ID, me, snd)]
         /\ api' = [api EXCEPT ![Digest] = [me |-> me, snd |-> snd]]
    /\ IF sent'[Digest].ret THEN Exit(0) ELSE Exit(1)
    /\ UNCHANGED << clock, deadline, feed, arg, returned, warned, BOT_TOKEN, CHAT_ID, procs, now, games,
                    marker_file, schedule_text, fetch_status, wakeAt, markers, calls,
                    marked, sawTwo, restarts, last, stopCause >>

main == MainConfig \/ MainFetch \/ MainSend

NextDigest == main

SpecDigest == InitDigest /\ [][NextDigest]_vars

----------------------------------------------------------------------------
(* One monitor on a day whose schedule changes between two fetches *)

\* it is started half a minute before Midnight and followed HorizonLateMin
\* minutes
StartLate == Midnight - 30
HorizonLateMin == 3

InitLate == InitProcs({1}, StartLate, HorizonLateMin, "late", {<< "123:abc", "42" >>})

SpecLate == InitLate /\ [][Next]_vars

----------------------------------------------------------------------------
(* One monitor that keeps running, on a day whose schedule does not change *)

\* it is started before the warning window of date 0 opens, on the half
\* minute or on the minute, and followed HorizonLiveMin minutes, past the end
\* of the window
HorizonLiveMin == 5
LiveStarts == {Start - 60, Start - 30, Start}

InitLive ==
    \E t \in LiveStarts :
        InitProcs({1}, t, HorizonLiveMin, "same", {<< "123:abc", "42" >>})

NextLive == \E i \in Instances : monitor_loop(i)

\* the process is not stopped: the loop takes its next step whenever it has one
SpecLive == InitLive /\ [][NextLive]_vars /\ WF_vars(NextLive)

----------------------------------------------------------------------------
(* Schedule retrieval on its own: both modes applied to one response *)

\* the current instants: two of the local day before Midnight, one after
RetrieveInstants == {Start, Midnight - 30, Midnight + MINUTE}

InitRetrieve ==
    /\ \E t \in RetrieveInstants :
         InitState({}, t, 0, "any", {<< "123:abc", "42" >>})
    /\ \E resp \in Feed(feed) : arg = [fn |-> "retrieve", resp |-> resp]
    /\ returned = NoCall

\* get_today_games_with_times() and get_today_schedule() get the same
\* response at the same instant
Retrieve ==
    /\ arg.fn = "retrieve"
    /\ returned = NoCall
    /\ returned' = [fn |-> "retrieve",
                      games |-> get_today_games_with_times(arg.resp, LocalDate(clock)),
                    text |-> get_today_schedule(arg.resp, LocalDate(clock))]
    /\ UNCHANGED << clock, deadline, feed, arg, warned, BOT_TOKEN, CHAT_ID, procs, pc,
                    now, games, marker_file, sent, api, schedule_text, exit_code,
                    fetch_status, wakeAt, markers, calls, marked, sawTwo,
                    restarts, last, stopCause >>

NextRetrieve == Retrieve

SpecRetrieve == InitRetrieve /\ [][NextRetrieve]_vars

----------------------------------------------------------------------------
(* The normalizer on its own *)

\* the characters abbreviations are made of: the letters of the five table
\* entries, two of them in lower case too, and a character without case
Alphabet == {"N", "O", "S", "A", "Y", "G", "U", "T", "H", "n", "o", "1"}

\* abbreviations have at most MaxAbbrevLen characters
MaxAbbrevLen == 4

Abbreviations == UNION { [1..n -> Alphabet] : n \in 0..MaxAbbrevLen }

InitNormalize ==
    /\ InitState({}, Start, 0, "any", {<< "123:abc", "42" >>})
    /\ \E s \in Abbreviations : arg = [fn |-> "normalize_team_abbrev", abbrev |-> s]
    /\ returned = NoCall

Normalize ==
    /\ arg.fn = "normalize_team_abbrev"
    /\ returned = NoCall
    /\ returned' = [fn |-> "normalize_team_abbrev",
                    value |-> normalize_team_abbrev(arg.abbrev)]
    /\ UNCHANGED << clock, deadline, feed, arg, warned, BOT_TOKEN, CHAT_ID, procs, pc,
                    now, games, marker_file, sent, api, schedule_text, exit_code,
                    fetch_status, wakeAt, markers, calls, marked, sawTwo,
                    restarts, last, stopCause >>

NextNormalize == Normalize

SpecNormalize == InitNormalize /\ [][NextNormalize]_vars

----------------------------------------------------------------------------
(* Two monitors run against the same marker directory *)

\* both are started StartTwoLeadMin minutes and a half before Midnight
StartTwoLeadMin == 4
StartTwo == Midnight - StartTwoLeadMin * MINUTE - 30

\* and are followed for HorizonTwoMin minutes
HorizonTwoMin == 2

InitTwo ==
    InitProcs({1, 2}, StartTwo, HorizonTwoMin, "two", { << "123:abc", "42" >> })

NextTwo == \E i \in Instances : monitor_loop(i)

SpecTwo == InitTwo /\ [][NextTwo]_vars

----------------------------------------------------------------------------
(* Properties of the single monitor (Spec) *)

Date0 == LocalDate(Start)
Date1 == Date0 + 1

\* C1, as stated: the Notifier is called at most once per trigger kind per
\* calendar date, whatever the outcomes of fetch, send and marker write.
C1_AtMostOneCall == \A f \in Files : calls[f] <= 1

\* C1, amended: per trigger kind and calendar date at most one Notifier call
\* is followed by the creation of the marker of that kind and date (calls
\* that leave no marker may be repeated).
C1_AtMostOneMarkedCall == \A f \in Files : marked[f] <= 1

\* the Notifier was called twice for the warning of date 0, and one of the
\* calls created the marker
C1_Witness ==
    /\ calls[<< "warning", Date0 >>] = 2
    /\ marked[<< "warning", Date0 >>] = 1
    /\ << "warning", Date0 >> \in markers

\* C2: once the marker of a trigger kind and date has been created, no tick
\* of that date calls the Notifier for that kind again, restarts included.
C2_NoSendAfterMarker ==
    \A i \in procs :
        pc[i].at = "send" => marked[<< pc[i].fn, LocalDate(now[i]) >>] = 0

\* after a restart, a tick inside the tolerance window of a trigger whose
\* marker exists has returned without sending
C2_Witness ==
    /\ restarts > 0
    /\ last[1] = [kind |-> "warning", how |-> "already sent"]
    /\ marked[<< "warning", LocalDate(clock) >>] = 1

\* C3: a check whose fetched schedule has 0 or 1 games neither calls the
\* Notifier nor writes a marker; while no fetch has yielded 2 games, no
\* notification has been sent and no marker exists.
C3_FewerThanTwoGames ==
    /\ \A i \in procs : pc[i].at \in {"send", "sent"} => Len(games[i]) >= 2
    /\ ~sawTwo => (markers = {} /\ \A f \in Files : calls[f] = 0)

\* the clock has passed the windows of date 0, a check has just returned on
\* a schedule of one game, and no fetch ever yielded two games
C3_Witness ==
    /\ ~sawTwo
    /\ clock >= Midnight
    /\ last[1].how = "one game"

\* C4: with n >= 2 games the target is the game at index n-2, and the send is
\* attempted exactly when now is within 60 s (inclusive) of the trigger
\* instant (target - 15 min for the warning, target for the check-in) and no
\* marker of that kind exists for now's date.
C4_SendExactlyWhenDue ==
    [][ \A i \in procs :
          ( /\ pc[i].at = "decide"
            /\ pc'[i] # pc[i]
            /\ pc'[i].fn # "exit"
            /\ Len(games[i]) >= 2 )
          => LET n == Len(games[i])
                 target == games[i][n - 1][1]
                 due == IF pc[i].fn = "warning" THEN target - 15 * 60 ELSE target
                 diff == now[i] - due
             IN  ( pc'[i].at = "send"
                   <=> ( /\ diff >= 0 - 60
                         /\ diff <= 60
                         /\ << pc[i].fn, LocalDate(now[i]) >> \notin markers ) )
      ]_vars

\* a warning is about to be sent on a schedule of 3 games, with now exactly
\* 60 s from the trigger instant of the game at index n-2
C4_Witness ==
    \E i \in procs :
        /\ pc[i] = At("warning", "send")
        /\ Len(games[i]) = 3
        /\ games[i][2][1] < games[i][3][1]
        /\ Abs(now[i] - (games[i][2][1] - 15 * 60)) = 60

\* C5: the set of markers changes only by the marker of a check whose send
\* returned success; a check whose send returned failure leaves it unchanged.
C5_MarkerOnlyOnSuccess ==
    [][ /\ markers' # markers
          => \E i \in procs :
                /\ pc[i].at = "sent"
                /\ sent[i].ret
                /\ markers' = markers \cup {<< pc[i].fn, LocalDate(now[i]) >>}
        /\ \A i \in procs :
             (pc[i].at = "sent" /\ ~sent[i].ret /\ pc'[i] # pc[i])
             => markers' = markers
      ]_vars

\* the warning of date 0 was sent twice and failed twice: the second call is
\* the retry of a later tick, and no marker exists
C5_Witness ==
    /\ last[1] = [kind |-> "warning", how |-> "send failed"]
    /\ calls[<< "warning", Date0 >>] = 2
    /\ markers = {}

\* C6: only an interrupt ends the loop; an exception leaving a check puts the
\* loop in the sleep of its handler, which ends 60 s later.
C6_LoopSurvivesErrors ==
    \A i \in procs :
        /\ pc[i].fn = "exit" => stopCause[i] = "interrupt"
        /\ last[i].how = "error"
             => (pc[i] = At("loop", "except_sleep") /\ wakeAt[i] = clock + 60)

\* a marker write has failed in the check-in check and the loop is sleeping
C6_Witness ==
    /\ last[1] = [kind |-> "checkin", how |-> "error"]
    /\ pc[1] = At("loop", "except_sleep")

----------------------------------------------------------------------------
(* Properties of two monitors on one marker directory (SpecTwo) *)

\* C7: nothing excludes two sends of one trigger: a monitor whose trigger is
\* due and whose marker is absent goes on to send even while the other monitor
\* is between its own marker test and its marker write for the same kind and
\* date; so both send.
C7_NoMutualExclusion ==
    [][ \A i, j \in procs :
          ( /\ i # j
            /\ pc[j].at \in {"send", "sent"}
            /\ pc[i].at = "decide"
            /\ pc[i].fn = pc[j].fn
            /\ pc'[i] # pc[i]
            /\ Len(games[i]) >= 2
            /\ Abs(now[i] - TriggerTime(pc[i].fn, games[i][Len(games[i]) - 1][1])) <= 60
            /\ marker_file[j] = << pc[i].fn, LocalDate(now[i]) >>
            /\ marker_file[j] \notin markers )
          => pc'[i].at = "send"
      ]_vars

\* both monitors have sent the check-in of date 0 with success and neither
\* has written the marker yet: the notification is delivered twice
C7_Witness ==
    /\ pc[1] = At("checkin", "sent")
    /\ pc[2] = At("checkin", "sent")
    /\ marker_file[1] = << "checkin", Date0 >>
    /\ marker_file[2] = << "checkin", Date0 >>
    /\ sent[1].ret /\ sent[2].ret
    /\ calls[<< "checkin", Date0 >>] = 2
    /\ markers = {}

----------------------------------------------------------------------------
(* Properties of the digest sender (SpecDigest), of startup and of the      *)
(* Notifier                                                                 *)

ConfigMissing == Falsy(BOT_TOKEN) \/ Falsy(CHAT_ID)

\* the messaging API's send call was made and completed without error
Delivered(p) == sent[p].attempted /\ api[p].snd = "ok"

\* C8: the digest process exits 0 exactly when the message was delivered, and
\* 1 when configuration is missing, the fetch failed or the send failed; with
\* configuration missing or the fetch failed it exits without calling the
\* Notifier.
C8_DigestExitCode ==
    pc[Digest] = At("exit", "exited") =>
        /\ exit_code \in {0, 1}
        /\ exit_code = 0 <=> Delivered(Digest)
        /\ (ConfigMissing \/ fetch_status \in {"RequestException", "Exception"})
             => (exit_code = 1 /\ sent[Digest] = NoResult /\ api[Digest] = NoApi)
        /\ ConfigMissing => fetch_status = "none"

\* the digest of a day with games was delivered and the process exited 0
C8_Witness ==
    /\ pc[Digest] = At("exit", "exited")
    /\ exit_code = 0
    /\ fetch_status = "ok"
    /\ schedule_text # NoGamesText
    /\ Delivered(Digest)

\* C9, as stated: in each process, with the credential or the destination
\* missing, the process ends at startup with a non-zero exit, before any
\* schedule fetch and any send attempt.
C9_MissingConfigStopsAtStartup ==
    ConfigMissing =>
        \A p \in procs :
            /\ pc[p].at \in {"start", "exited"}
            /\ pc[p].at = "exited" => exit_code = 1
            /\ fetch_status = "none"
            /\ sent[p] = NoResult

\* C10: a Notifier call returns to its caller, never raises; it returns True
\* exactly when the credential is non-empty, the destination converts, the
\* identity call succeeded and the send call completed without error.
C10_NotifierReturnsBoolean ==
    \A p \in procs :
        pc[p].at = "sent" =>
            /\ ~sent[p].raised
            /\ sent[p].ret \in BOOLEAN
            /\ sent[p].ret <=> ( /\ ~Falsy(BOT_TOKEN)
                                 /\ (CHAT_ID = "None" \/ IntParses(CHAT_ID))
                                 /\ api[p].me = "ok"
                                 /\ api[p].snd = "ok" )
            /\ sent[p].ret => Delivered(p)

\* the destination did not convert to a number: the ValueError was caught
\* inside the Notifier and the caller got False
C10_Witness ==
    /\ pc[1].at = "sent"
    /\ CHAT_ID = "@chat"
    /\ sent[1] = [ret |-> FALSE, raised |-> FALSE, asked |-> FALSE,
                  attempted |-> FALSE, diag |-> "Error initializing bot"]

\* C11 as stated: once the identity check has been made, the send is
\* attempted whatever the identity check answered.
C11_SendWhateverIdentityCheck ==
    \A p \in procs :
        (pc[p].at = "sent" /\ sent[p].asked) => sent[p].attempted

\* C11: with a non-empty credential and a destination that converts, the
\* identity check is made, and it is made before the send: the send is
\* attempted exactly when the identity check succeeded; when it failed the
\* Notifier returns False with the diagnostic of the outer handler.
C11_IdentityCheckGatesSend ==
    \A p \in procs :
        pc[p].at = "sent" =>
            /\ sent[p].asked <=> ( /\ ~Falsy(BOT_TOKEN)
                                   /\ (CHAT_ID = "None" \/ IntParses(CHAT_ID)) )
            /\ sent[p].attempted <=> (sent[p].asked /\ api[p].me = "ok")
            /\ (sent[p].asked /\ api[p].me # "ok") =>
                   /\ ~sent[p].ret
                   /\ sent[p].diag \in {"token unauthorized", "Error initializing bot"}

\* the identity check failed although the send would have succeeded: the
\* send was not attempted
C11_Witness ==
    /\ pc[1].at = "sent"
    /\ BOT_TOKEN = "123:abc" /\ CHAT_ID = "42"
    /\ api[1] = [me |-> "NetworkError", snd |-> "ok"]
    /\ sent[1].asked /\ ~sent[1].attempted /\ ~sent[1].ret

\* the lines of a digest text: the pieces between the newlines
RECURSIVE SplitLines(_)
SplitLines(text) ==
    IF \A k \in DOMAIN text : text[k] # "\n" THEN << text >>
    ELSE LET k == CHOOSE j \in DOMAIN text :
                      text[j] = "\n" /\ \A h \in 1..(j - 1) : text[h] # "\n"
         IN  << SubSeq(text, 1, k - 1) >> \o SplitLines(SubSeq(text, k + 1, Len(text)))

\* the lines of the games a digest text lists
DigestLines(text) ==
    IF text \in {NoGamesText, FetchErrorText, UnexpectedErrorText} THEN <<>>
    ELSE SplitLines(text)

\* the events of the response that have a kickoff instant
HasKickoff(event) == event.date.form \in {"Z", "offset", "naive"}
TodayOf(t) == (t - 7 * HOUR) \div DAY
KickoffToday(event) == TodayOf(event.date.utc) = TodayOf(clock)
TodaysEvents == { k \in DOMAIN arg.resp.events :
                    HasKickoff(arg.resp.events[k]) /\ KickoffToday(arg.resp.events[k]) }

\* C12: for every response and every current instant, each retrieval mode
\* retains an event that has a kickoff exactly when the kickoff's local date
\* is today's local date: the monitor's list and the digest's lines hold one
\* entry per such event and no other entry; an event whose UTC date is
\* today's date and whose local date is not is in neither.
C12_RetainedIffLocalToday ==
    returned.fn = "retrieve" =>
        LET events == arg.resp.events
            lines == DigestLines(returned.text)
        IN  /\ Len(returned.games) = Cardinality(TodaysEvents)
            /\ Len(lines) = Cardinality(TodaysEvents)
            /\ \A k \in DOMAIN events :
                   HasKickoff(events[k]) =>
                      /\ KickoffToday(events[k]) <=>
                            \E g \in DOMAIN returned.games :
                                returned.games[g] =
                                    << events[k].date.utc, team_matchup(events[k]) >>
                      /\ KickoffToday(events[k]) <=>
                            \E g \in DOMAIN lines : lines[g] = GameLine(events[k])
                      /\ ( /\ events[k].date.utc \div DAY = TodayOf(clock)
                           /\ ~KickoffToday(events[k]) ) =>
                            \A g \in DOMAIN returned.games :
                                returned.games[g][1] # events[k].date.utc

\* after Midnight, a response of a game of the evening before (its UTC date
\* is today's date) and a game of today: only the second is retained
C12_Witness ==
    /\ returned.fn = "retrieve"
    /\ clock = Midnight + MINUTE
    /\ Len(arg.resp.events) = 2
    /\ arg.resp.events[1].date.utc = Midnight - 3 * MINUTE
    /\ arg.resp.events[1].date.utc \div DAY = TodayOf(clock)
    /\ HasKickoff(arg.resp.events[1])
    /\ Len(returned.games) = 1
    /\ returned.games[1][1] = Midnight + 16 * MINUTE
    /\ Len(DigestLines(returned.text)) = 1

\* the kickoff instant of the game a digest line lists
KickoffOfLine(line) ==
    LET events == arg.resp.events
        k == CHOOSE j \in DOMAIN events :
                 HasKickoff(events[j]) /\ GameLine(events[j]) = line
    IN  events[k].date.utc

\* the monitor's list is in ascending order of kickoff
C13_MonitorAscending ==
    returned.fn = "retrieve" =>
        \A a, b \in DOMAIN returned.games :
            a < b => returned.games[a][1] <= returned.games[b][1]

\* C13 as stated: whatever the order of the events in the response, the
\* monitor's list and the lines of the digest are both in ascending order of
\* kickoff.
C13_SchedulesAscending ==
    returned.fn = "retrieve" =>
        LET lines == DigestLines(returned.text) IN
        /\ \A a, b \in DOMAIN returned.games :
               a < b => returned.games[a][1] <= returned.games[b][1]
        /\ \A a, b \in DOMAIN lines :
               a < b => KickoffOfLine(lines[a]) <= KickoffOfLine(lines[b])

\* C14: for every abbreviation over the alphabet, normalize_team_abbrev
\* returns what the reference rules give for the uppercased input: the mapped
\* code for the five table entries in any case, else the input itself at
\* length 3, its first three characters when longer, the two characters and
\* the last one again at length 2, the character three times at length 1,
\* and the empty string for the empty string; every non-empty input gives an
\* uppercase result of exactly three characters.
C14_NormalizerFollowsRules ==
    returned.fn = "normalize_team_abbrev" =>
        LET up == [k \in DOMAIN arg.abbrev |-> UpperChar(arg.abbrev[k])]
            out == returned.value
            n == Len(arg.abbrev)
        IN  /\ CASE up = <<"N","O">> -> out = <<"N","O","P">>
                 [] up = <<"S","A">> -> out = <<"S","A","S">>
                 [] up = <<"N","Y">> -> out = <<"N","Y","K">>
                 [] up = <<"G","S">> -> out = <<"G","S","W">>
                 [] up = <<"U","T","A","H">> -> out = <<"U","T","A">>
                 [] OTHER ->
                      /\ n = 3 => out = up
                      /\ n > 3 => out = << up[1], up[2], up[3] >>
                      /\ n = 2 => out = << up[1], up[2], up[2] >>
                      /\ n = 1 => out = << up[1], up[1], up[1] >>
                      /\ n = 0 => out = <<>>
            /\ n > 0 =>
                  /\ Len(out) = 3
                  /\ \A k \in 1..3 : \A j \in 1..Len(LowerCase) : out[k] # LowerCase[j]

\* a table entry in mixed case, a two-character code outside the table and
\* a four-character code outside the table
C14_Witness ==
    /\ returned.fn = "normalize_team_abbrev"
    /\ \/ arg.abbrev = <<"n","O">> /\ returned.value = <<"N","O","P">>
       \/ arg.abbrev = <<"o","n">> /\ returned.value = <<"O","N","N">>
       \/ arg.abbrev = <<"U","T","A","n">> /\ returned.value = <<"U","T","A">>

\* the lines of today's events from the k-th event of the response on
RECURSIVE TodaysLinesFrom(_)
TodaysLinesFrom(k) ==
    IF k > Len(arg.resp.events) THEN <<>>
    ELSE (IF k \in TodaysEvents THEN << GameLine(arg.resp.events[k]) >> ELSE <<>>)
         \o TodaysLinesFrom(k + 1)

Newlines(text) == Cardinality({ k \in DOMAIN text : text[k] = "\n" })

\* C15: when the fetch succeeds, the digest text is the "no games today"
\* sentinel exactly when no event of the response is retained for today (so
\* for an empty events array); otherwise it is the lines of the retained
\* games joined by newlines, one line for each retained game.
C15_SentinelIffNothingRetained ==
    (returned.fn = "retrieve" /\ arg.resp.status = "ok") =>
        /\ returned.text = NoGamesText <=> TodaysEvents = {}
        /\ arg.resp.events = <<>> => returned.text = NoGamesText
        /\ TodaysEvents # {} =>
              /\ SplitLines(returned.text) = TodaysLinesFrom(1)
              /\ Newlines(returned.text) = Cardinality(TodaysEvents) - 1
              /\ ~FetchFailed(returned.text)

\* a response of three events, two of them of today: two lines; and a
\* response whose only event is of another day: the sentinel
C15_Witness ==
    /\ returned.fn = "retrieve" /\ arg.resp.status = "ok"
    /\ \/ /\ Len(arg.resp.events) = 3
          /\ Cardinality(TodaysEvents) = 2
          /\ Newlines(returned.text) = 1
       \/ /\ Len(arg.resp.events) = 1
          /\ HasKickoff(arg.resp.events[1])
          /\ TodaysEvents = {}
          /\ returned.text = NoGamesText

----------------------------------------------------------------------------
(* The two checks of a tick (Spec) *)

\* C16 as stated: both checks are evaluated in every tick: whenever the loop
\* has reached the sleep that ends a tick, the check that finished last in
\* that tick is the check-in check, whatever the outcome of the warning check
\* and also when the warning check ended with an error.
C16_CheckinEvaluatedEveryTick ==
    \A i \in procs : pc[i].fn = "loop" => last[i].kind = "checkin"

\* both triggers have been sent in the running tick of monitor i: the warning
\* earlier in the tick, the check-in by the Notifier call that just returned
BothSent(i) ==
    /\ pc[i] = At("checkin", "sent")
    /\ sent[i].ret
    /\ warned[i] # 0

----------------------------------------------------------------------------
(* Liveness of the warning (SpecLive) *)

\* the warning window of the schedule of FeedSame
WarningDue == Midnight - 3 * MINUTE - 15 * MINUTE

\* C18: the monitor is started before the warning window opens, every fetch
\* returns the same two games of today, the ticks are at most 120 s apart and
\* every send and marker write succeeds: then a tick falls inside the window
\* and the warning marker of the date eventually exists.
C18_WarningEventuallySent ==
    /\ clock < WarningDue - TOLERANCE_S
    /\ LocalDate(WarningDue - TOLERANCE_S) = LocalDate(WarningDue + TOLERANCE_S)
    => <>( /\ << "warning", Date0 >> \in markers
           /\ marked[<< "warning", Date0 >>] = 1 )

\* the warning has been sent by a tick inside the window and its marker written
C18_Witness ==
    /\ feed = "same"
    /\ << "warning", Date0 >> \in markers
    /\ calls[<< "warning", Date0 >>] = 1
    /\ last[1] = [kind |-> "warning", how |-> "sent"]
    /\ Abs(clock - WarningDue) <= TOLERANCE_S + 2 * 30

====
